---- MODULE Spec2Model ----
(***************************************************************************)
(* A model of the `log` facade: the global logger slot (STATE / LOGGER /   *)
(* MAX_LOG_LEVEL_FILTER), the log! and log_enabled! macros, the Level /    *)
(* LevelFilter ordering, Source::get of the key-value sources and the      *)
(* serde bridge of the key-value values.                                   *)
(***************************************************************************)
EXTENDS Integers, Sequences, FiniteSets, TLC

\* ---------------------------------------------------------------- bounds
NumThreads == 2
MaxCalls == 3
MaxLen == 2

Threads == 1..NumThreads

\* ------------------------------------------------- Level and LevelFilter
Level == {"Error", "Warn", "Info", "Debug", "Trace"}
LevelFilter == {"Off", "Error", "Warn", "Info", "Debug", "Trace"}

\* `*self as usize` of #[repr(usize)] enum Level { Error = 1, Warn, ... }
Level_as_usize(l) ==
    CASE l = "Error" -> 1
      [] l = "Warn" -> 2
      [] l = "Info" -> 3
      [] l = "Debug" -> 4
      [] l = "Trace" -> 5

\* `*self as usize` of #[repr(usize)] enum LevelFilter { Off, Error, ... }
LevelFilter_as_usize(f) ==
    CASE f = "Off" -> 0
      [] f = "Error" -> 1
      [] f = "Warn" -> 2
      [] f = "Info" -> 3
      [] f = "Debug" -> 4
      [] f = "Trace" -> 5

\* usize::cmp
usize_cmp(a, b) == IF a < b THEN "Less" ELSE IF a = b THEN "Equal" ELSE "Greater"

\* cmp::Ordering::reverse
Ordering_reverse(o) ==
    CASE o = "Less" -> "Greater"
      [] o = "Equal" -> "Equal"
      [] o = "Greater" -> "Less"

\* impl PartialEq<LevelFilter> for Level
Level_eq_LevelFilter(l, f) == Level_as_usize(l) = LevelFilter_as_usize(f)

\* impl PartialEq<Level> for LevelFilter: other.eq(self)
LevelFilter_eq_Level(f, l) == Level_eq_LevelFilter(l, f)

\* impl PartialOrd<LevelFilter> for Level (the Option is always Some)
Level_partial_cmp_LevelFilter(l, f) ==
    usize_cmp(Level_as_usize(l), LevelFilter_as_usize(f))

\* LevelFilter's partial_cmp without the `.map(|x| x.reverse())`
LevelFilter_partial_cmp_Level_unreversed(f, l) ==
    Level_partial_cmp_LevelFilter(l, f)

\* impl PartialOrd<Level> for LevelFilter: other.partial_cmp(self).map(reverse)
LevelFilter_partial_cmp_Level(f, l) ==
    Ordering_reverse(Level_partial_cmp_LevelFilter(l, f))

\* impl Ord for Level
Level_cmp(a, b) == usize_cmp(Level_as_usize(a), Level_as_usize(b))

\* impl Ord for LevelFilter
LevelFilter_cmp(a, b) == usize_cmp(LevelFilter_as_usize(a), LevelFilter_as_usize(b))

\* PartialOrd's provided methods, each a match on partial_cmp
Ord_lt(o) == o = "Less"
Ord_le(o) == o \in {"Less", "Equal"}
Ord_gt(o) == o = "Greater"
Ord_ge(o) == o \in {"Greater", "Equal"}

\* ------------------------------------------------------ the global logger
UNINITIALIZED == 0
INITIALIZING == 1
INITIALIZED == 2

\* ATOMIC_USIZE_INIT
ATOMIC_USIZE_INIT == 0

MAX_LEVEL_INNER == "Trace"
STATIC_MAX_LEVEL == MAX_LEVEL_INNER

\* The loggers a program may install: a &'static Log and a Box<Log>.
StaticLoggers == {"MY_LOGGER"}
BoxedLoggers == {"BoxedLogger"}
Targets == {"app_events", "my_crate"}

\* The levels the modelled callers log at, and the filters they set: below,
\* at and above one another.
LogLevels == {"Error", "Info", "Trace"}
MaxLevels == {"Off", "Warn", "Info", "Trace"}

\* module_path!() of the calling module
module_path == "my_crate"

VARIABLES
    state,                  \* static STATE: AtomicUsize (STATE is a reserved word)
    LOGGER,                 \* static mut LOGGER: &'static Log
    MAX_LOG_LEVEL_FILTER,   \* static MAX_LOG_LEVEL_FILTER: AtomicUsize
    pc,                     \* each thread's position in the call it is making
    frame,                  \* each thread's arguments and locals
    calls,                  \* number of calls started so far
    okCount,                \* history: number of calls that returned Ok(())
    sink,                   \* what the installed loggers have received
    writes,                 \* history: number of assignments to LOGGER
    published,              \* history: STATE.store(INITIALIZED) has executed
    setMaxCalled            \* history: set_max_level has been called

logvars == <<state, LOGGER, MAX_LOG_LEVEL_FILTER, pc, frame, calls, okCount, sink,
             writes, published, setMaxCalled>>

SetOps == {"set_logger", "set_boxed_logger"}

NoFrame ==
    [op |-> "none", lvl |-> "Error", target |-> module_path,
     logger |-> "NopLogger", max |-> "Off", lg |-> "NopLogger",
     okBefore |-> FALSE, wrote |-> FALSE, pubAtLookup |-> FALSE,
     assignedAtLookup |-> FALSE, enabled |-> FALSE, result |-> "none"]

\* a NopLogger that claims to be enabled
NopLogger_enabled_always(md) == TRUE

\* ---- impl Log for NopLogger
NopLogger_enabled(md) == FALSE
NopLogger_log(s, entry) == s
NopLogger_flush(s, entry) == s

\* ---- impl Log for MyLogger (the documented example logger) and for a boxed
\* logger that filters on the target
MyLogger_enabled(md) == Ord_le(Level_cmp(md.level, "Info"))
BoxedLogger_enabled(md) == md.target = "app_events"

\* Log::enabled(lg, metadata), dispatched on the logger
Log_enabled(lg, md) ==
    CASE lg = "NopLogger" -> NopLogger_enabled(md)
      [] lg = "MY_LOGGER" -> MyLogger_enabled(md)
      [] lg = "BoxedLogger" -> BoxedLogger_enabled(md)

\* Log::log(lg, record): an installed logger receives the record
Log_log(lg, s, entry) ==
    IF lg = "NopLogger" THEN NopLogger_log(s, entry) ELSE s \cup {entry}

\* Log::flush(lg)
Log_flush(lg, s, entry) ==
    IF lg = "NopLogger" THEN NopLogger_flush(s, entry) ELSE s \cup {entry}

\* mem::transmute of the loaded usize to a LevelFilter
transmute_LevelFilter(n) == CHOOSE f \in LevelFilter : LevelFilter_as_usize(f) = n

\* max_level()
max_level == transmute_LevelFilter(MAX_LOG_LEVEL_FILTER)

\* AtomicUsize::compare_and_swap: the value stored afterwards
compare_and_swap(cur, old, new) == IF cur = old THEN new ELSE cur

\* the comparison against the wrong constants
cas_lost_if_initialized(prev) == prev = INITIALIZED
cas_lost_if_initializing(prev) == prev = INITIALIZING

\* set_logger_inner: `compare_and_swap(..) != UNINITIALIZED`
cas_lost(prev) == prev # UNINITIALIZED

\* logger() handing out LOGGER as soon as initialization has begun
logger_unset_until_begun(st) == st = UNINITIALIZED

\* logger(): `STATE.load(SeqCst) != INITIALIZED`
logger_unset(st) == st # INITIALIZED

\* logger()
logger == IF logger_unset(state) THEN "NopLogger" ELSE LOGGER

\* log! with `lvl < max_level()` in place of `lvl <= max_level()`
log_cond_strict(lvl, max) ==
    /\ Ord_le(Level_partial_cmp_LevelFilter(lvl, STATIC_MAX_LEVEL))
    /\ Ord_lt(Level_partial_cmp_LevelFilter(lvl, max))

\* log! without the run-time check
log_cond_static_only(lvl, max) ==
    Ord_le(Level_partial_cmp_LevelFilter(lvl, STATIC_MAX_LEVEL))

\* the condition of log!: `lvl <= STATIC_MAX_LEVEL && lvl <= max_level()`
log_cond(lvl, max) ==
    /\ Ord_le(Level_partial_cmp_LevelFilter(lvl, STATIC_MAX_LEVEL))
    /\ Ord_le(Level_partial_cmp_LevelFilter(lvl, max))

\* log_enabled! with `lvl < max_level()` in place of `lvl <= max_level()`
log_enabled_cond_strict(lvl, max) ==
    /\ Ord_le(Level_partial_cmp_LevelFilter(lvl, STATIC_MAX_LEVEL))
    /\ Ord_lt(Level_partial_cmp_LevelFilter(lvl, max))

\* the first two conjuncts of log_enabled!:
\* `lvl <= STATIC_MAX_LEVEL && lvl <= max_level() && ...`
log_enabled_cond(lvl, max) ==
    /\ Ord_le(Level_partial_cmp_LevelFilter(lvl, STATIC_MAX_LEVEL))
    /\ Ord_le(Level_partial_cmp_LevelFilter(lvl, max))

LogInit ==
    /\ state = ATOMIC_USIZE_INIT
    /\ LOGGER = "NopLogger"
    /\ MAX_LOG_LEVEL_FILTER = ATOMIC_USIZE_INIT
    /\ pc = [t \in Threads |-> "idle"]
    /\ frame = [t \in Threads |-> NoFrame]
    /\ calls = 0
    /\ okCount = 0
    /\ sink = {}
    /\ writes = 0
    /\ published = FALSE
    /\ setMaxCalled = FALSE

Begin(t, f, next) ==
    /\ pc[t] = "idle"
    /\ calls < MaxCalls
    /\ calls' = calls + 1
    /\ frame' = [frame EXCEPT ![t] = [f EXCEPT !.okBefore = okCount > 0]]
    /\ pc' = [pc EXCEPT ![t] = next]

Finish(t, result) ==
    /\ frame' = [frame EXCEPT ![t].result = result]
    /\ pc' = [pc EXCEPT ![t] = "idle"]

\* ---- set_logger(logger) / set_boxed_logger(logger): entry
set_logger(t, l) ==
    /\ Begin(t, [NoFrame EXCEPT !.op = "set_logger", !.logger = l], "cas")
    /\ UNCHANGED <<state, LOGGER, MAX_LOG_LEVEL_FILTER, okCount, sink, writes,
                   published, setMaxCalled>>

set_boxed_logger(t, l) ==
    /\ Begin(t, [NoFrame EXCEPT !.op = "set_boxed_logger", !.logger = l], "cas")
    /\ UNCHANGED <<state, LOGGER, MAX_LOG_LEVEL_FILTER, okCount, sink, writes,
                   published, setMaxCalled>>

\* ---- set_logger_inner: `if STATE.compare_and_swap(UNINITIALIZED, INITIALIZING)
\* != UNINITIALIZED { return Err(SetLoggerError(())) }`
set_logger_inner_cas(t) ==
    /\ pc[t] = "cas"
    /\ state' = compare_and_swap(state, UNINITIALIZED, INITIALIZING)
    /\ IF cas_lost(state)
       THEN /\ frame' = [frame EXCEPT ![t].result = "Err"]
            /\ pc' = [pc EXCEPT ![t] = "idle"]
       ELSE /\ pc' = [pc EXCEPT ![t] = "write"]
            /\ UNCHANGED frame
    /\ UNCHANGED <<LOGGER, MAX_LOG_LEVEL_FILTER, calls, okCount, sink,
                   writes, published, setMaxCalled>>

\* ---- set_logger_inner: LOGGER = make_logger()
set_logger_inner_write(t) ==
    /\ pc[t] = "write"
    /\ LOGGER' = frame[t].logger
    /\ writes' = writes + 1
    /\ frame' = [frame EXCEPT ![t].wrote = TRUE]
    /\ pc' = [pc EXCEPT ![t] = "store"]
    /\ UNCHANGED <<state, MAX_LOG_LEVEL_FILTER, calls, okCount, sink,
                   published, setMaxCalled>>

\* ---- set_logger_inner: STATE.store(INITIALIZED)
set_logger_inner_store(t) ==
    /\ pc[t] = "store"
    /\ state' = INITIALIZED
    /\ published' = TRUE
    /\ pc' = [pc EXCEPT ![t] = "ret_ok"]
    /\ UNCHANGED <<LOGGER, MAX_LOG_LEVEL_FILTER, frame, calls, okCount, sink,
                   writes, setMaxCalled>>

\* ---- set_logger_inner: `Ok(())`, the call returns
set_logger_inner_return(t) ==
    /\ pc[t] = "ret_ok"
    /\ Finish(t, "Ok")
    /\ okCount' = okCount + 1
    /\ UNCHANGED <<state, LOGGER, MAX_LOG_LEVEL_FILTER, calls, sink, writes,
                   published, setMaxCalled>>

\* ---- set_max_level(level): one atomic store
set_max_level(t, level) ==
    /\ pc[t] = "idle"
    /\ calls < MaxCalls
    /\ calls' = calls + 1
    /\ MAX_LOG_LEVEL_FILTER' = LevelFilter_as_usize(level)
    /\ setMaxCalled' = TRUE
    /\ UNCHANGED <<state, LOGGER, pc, frame, okCount, sink, writes, published>>

\* what a logger is handed by Log::log / Log::flush, with history fields
SinkEntry(kind, lg, lvl, target) ==
    [kind |-> kind, to |-> lg, lvl |-> lvl, target |-> target,
     pubAtLookup |-> published, setReturned |-> okCount > 0]

\* ---- log!(lvl, ...) => log!(target: module_path!(), lvl, ...): entry
log(t, lvl) ==
    /\ Begin(t, [NoFrame EXCEPT !.op = "log", !.lvl = lvl,
                                !.target = module_path], "log_check")
    /\ UNCHANGED <<state, LOGGER, MAX_LOG_LEVEL_FILTER, okCount, sink, writes,
                   published, setMaxCalled>>

\* ---- log!: `if lvl <= STATIC_MAX_LEVEL && lvl <= max_level()`
log_check(t) ==
    /\ pc[t] = "log_check"
    /\ IF log_cond(frame[t].lvl, max_level)
       THEN /\ frame' = [frame EXCEPT ![t].max = max_level]
            /\ pc' = [pc EXCEPT ![t] = "log_call"]
       ELSE /\ frame' = [frame EXCEPT ![t].max = max_level,
                                      ![t].result = "discarded"]
            /\ pc' = [pc EXCEPT ![t] = "idle"]
    /\ UNCHANGED <<state, LOGGER, MAX_LOG_LEVEL_FILTER, calls, okCount, sink,
                   writes, published, setMaxCalled>>

\* ---- log!: `Log::log(logger(), &RecordBuilder::new()...build())`
log_call(t) ==
    /\ pc[t] = "log_call"
    /\ sink' = Log_log(logger, sink,
                       SinkEntry("log", logger, frame[t].lvl, frame[t].target))
    /\ frame' = [frame EXCEPT ![t].lg = logger,
                              ![t].pubAtLookup = published,
                              ![t].assignedAtLookup = writes > 0,
                              ![t].result = "logged"]
    /\ pc' = [pc EXCEPT ![t] = "idle"]
    /\ UNCHANGED <<state, LOGGER, MAX_LOG_LEVEL_FILTER, calls, okCount, writes,
                   published, setMaxCalled>>

\* ---- log_enabled!(target: target, lvl): entry
log_enabled(t, target, lvl) ==
    /\ Begin(t, [NoFrame EXCEPT !.op = "log_enabled", !.lvl = lvl,
                                !.target = target], "en_check")
    /\ UNCHANGED <<state, LOGGER, MAX_LOG_LEVEL_FILTER, okCount, sink, writes,
                   published, setMaxCalled>>

\* ---- log_enabled!: `lvl <= STATIC_MAX_LEVEL && lvl <= max_level() && ...`
log_enabled_check(t) ==
    /\ pc[t] = "en_check"
    /\ IF log_enabled_cond(frame[t].lvl, max_level)
       THEN /\ frame' = [frame EXCEPT ![t].max = max_level]
            /\ pc' = [pc EXCEPT ![t] = "en_call"]
       ELSE \* `&&` short-circuits: logger() is not called; lg and the
            \* two history fields record what it would have returned
            /\ frame' = [frame EXCEPT ![t].max = max_level,
                                      ![t].lg = logger,
                                      ![t].pubAtLookup = published,
                                      ![t].assignedAtLookup = writes > 0,
                                      ![t].enabled = FALSE,
                                      ![t].result = "returned"]
            /\ pc' = [pc EXCEPT ![t] = "idle"]
    /\ UNCHANGED <<state, LOGGER, MAX_LOG_LEVEL_FILTER, calls, okCount, sink,
                   writes, published, setMaxCalled>>

\* ---- log_enabled!: `Log::enabled(logger(), &MetadataBuilder::new()...build())`
log_enabled_call(t) ==
    /\ pc[t] = "en_call"
    /\ frame' = [frame EXCEPT
           ![t].lg = logger,
           ![t].pubAtLookup = published,
           ![t].assignedAtLookup = writes > 0,
           ![t].enabled = Log_enabled(logger, [level |-> frame[t].lvl,
                                               target |-> frame[t].target]),
           ![t].result = "returned"]
    /\ pc' = [pc EXCEPT ![t] = "idle"]
    /\ UNCHANGED <<state, LOGGER, MAX_LOG_LEVEL_FILTER, calls, okCount, sink,
                   writes, published, setMaxCalled>>

\* ---- logger().flush()
flush(t) ==
    /\ pc[t] = "idle"
    /\ calls < MaxCalls
    /\ calls' = calls + 1
    /\ sink' = Log_flush(logger, sink,
                         SinkEntry("flush", logger, "Error", module_path))
    /\ frame' = [frame EXCEPT ![t] =
           [NoFrame EXCEPT !.op = "flush", !.lg = logger,
                           !.okBefore = okCount > 0,
                           !.pubAtLookup = published,
                           !.assignedAtLookup = writes > 0,
                           !.result = "flushed"]]
    /\ UNCHANGED <<state, LOGGER, MAX_LOG_LEVEL_FILTER, pc, okCount, writes,
                   published, setMaxCalled>>

LogNext ==
    \E t \in Threads :
        \/ \E l \in StaticLoggers : set_logger(t, l)
        \/ \E l \in BoxedLoggers : set_boxed_logger(t, l)
        \/ set_logger_inner_cas(t)
        \/ set_logger_inner_write(t)
        \/ set_logger_inner_store(t)
        \/ set_logger_inner_return(t)
        \/ \E f \in MaxLevels : set_max_level(t, f)
        \/ \E lvl \in LogLevels : log(t, lvl)
        \/ log_check(t)
        \/ log_call(t)
        \/ \E target \in Targets, lvl \in LogLevels : log_enabled(t, target, lvl)
        \/ log_enabled_check(t)
        \/ log_enabled_call(t)
        \/ flush(t)

\* ------------------------------------- comparing a Level with a LevelFilter
VARIABLES
    cmpL,       \* the Level operand
    cmpF,       \* the LevelFilter operand
    cmpRes      \* the comparisons evaluated so far, [op, val]

cmpvars == <<cmpL, cmpF, cmpRes>>

CmpOps == {"l == f", "l < f", "l <= f", "l > f", "l >= f",
           "f == l", "f < l", "f <= l", "f > l", "f >= l"}

\* the operators of the two PartialEq / PartialOrd impls
CmpEval(op, l, f) ==
    CASE op = "l == f" -> Level_eq_LevelFilter(l, f)
      [] op = "l < f" -> Ord_lt(Level_partial_cmp_LevelFilter(l, f))
      [] op = "l <= f" -> Ord_le(Level_partial_cmp_LevelFilter(l, f))
      [] op = "l > f" -> Ord_gt(Level_partial_cmp_LevelFilter(l, f))
      [] op = "l >= f" -> Ord_ge(Level_partial_cmp_LevelFilter(l, f))
      [] op = "f == l" -> LevelFilter_eq_Level(f, l)
      [] op = "f < l" -> Ord_lt(LevelFilter_partial_cmp_Level(f, l))
      [] op = "f <= l" -> Ord_le(LevelFilter_partial_cmp_Level(f, l))
      [] op = "f > l" -> Ord_gt(LevelFilter_partial_cmp_Level(f, l))
      [] op = "f >= l" -> Ord_ge(LevelFilter_partial_cmp_Level(f, l))

CmpIdle == cmpL = "Error" /\ cmpF = "Off" /\ cmpRes = {}

CmpInit ==
    /\ cmpL \in Level
    /\ cmpF \in LevelFilter
    /\ cmpRes = {}

\* evaluate one comparison of the two operands
compare(op) ==
    /\ \A r \in cmpRes : r.op # op
    /\ cmpRes' = cmpRes \cup {[op |-> op, val |-> CmpEval(op, cmpL, cmpF)]}
    /\ UNCHANGED <<cmpL, cmpF>>

CmpNext == \E op \in CmpOps : compare(op)

\* ------------------------------------------------------------ Source::get
VARIABLES
    src,        \* the source get is called on
    key,        \* the key looked for
    spc,        \* where the call is: "start", "visiting", "done"
    todo,       \* the visit_pair calls self.visit(&mut visitor) has yet to make
    visitor,    \* the Get visitor: Get(key, found)
    visited,    \* history: the pairs passed to visit_pair
    got         \* the Option returned

srcvars == <<src, key, spc, todo, visitor, visited, got>>

None == <<>>
Some(v) == <<v>>

Pair(k, v) == [kind |-> "pair", k |-> k, v |-> v]
SeqsUpTo(S, n) == UNION {[1..k -> S] : k \in 0..n}

\* Key::eq, derived PartialEq on the inner &str
Key_eq(k1, k2) == k1 = k2

\* the keys sources hold, in str order, and the values
KeyOrder == <<"a", "b">>
Keys == {KeyOrder[i] : i \in DOMAIN KeyOrder}
Vals == {1, 2}
\* the keys asked for: "c" is in no source
QueryKeys == Keys \cup {"c"}

\* the keys of a BTreeMap in iteration order
InDomain(D) == [k \in Keys |-> k \in D]
SortedKeys(D) == LET in == InDomain(D) IN SelectSeq(KeyOrder, LAMBDA k : in[k])

\* Source::visit of each implementation, as the visit_pair calls it makes on a
\* visitor that returns Ok every time
RECURSIVE Source_visit(_)
RECURSIVE Slice_visit(_)
Slice_visit(items) ==
    IF items = <<>> THEN <<>>
    ELSE Source_visit(Head(items)) \o Slice_visit(Tail(items))

Source_visit(s) ==
    CASE s.kind = "pair" -> <<[k |-> s.k, v |-> s.v]>>
      [] s.kind = "map" ->
            [i \in 1..Cardinality(DOMAIN s.m) |->
                [k |-> SortedKeys(DOMAIN s.m)[i],
                 v |-> s.m[SortedKeys(DOMAIN s.m)[i]]]]
      [] s.kind = "slice" -> Slice_visit(s.items)
      [] s.kind = "chain" -> Source_visit(s.a) \o Source_visit(s.b)
      [] s.kind \in {"ref", "box", "erased"} -> Source_visit(s.inner)

\* BTreeMap::get / HashMap::get
Map_get(m, k) == IF k \in DOMAIN m THEN Some(m[k]) ELSE None

\* the implementation whose `get` runs: &T and ErasedSource forward get to
\* the source they hold; Box (like Arc, Rc and Vec) does not
RECURSIVE get_target(_)
get_target(s) ==
    IF s.kind \in {"ref", "erased"} THEN get_target(s.inner) ELSE s

\* a Get visitor that keeps the first value it finds
Get_visit_pair_first(g, k, v) ==
    IF Key_eq(k, g.key) /\ g.found = None THEN [g EXCEPT !.found = Some(v)] ELSE g

\* Get::visit_pair: `if k == self.0 { self.1 = Some(v); } Ok(())`
Get_visit_pair(g, k, v) ==
    IF Key_eq(k, g.key) THEN [g EXCEPT !.found = Some(v)] ELSE g

SrcIdle ==
    /\ src = Pair("a", 1)
    /\ key = "a"
    /\ spc = "start"
    /\ todo = <<>>
    /\ visitor = [key |-> "a", found |-> None]
    /\ visited = <<>>
    /\ got = None

\* the sources the model draws from: pairs, maps, slices of these, chains of
\* two, and each of them behind a reference, a Box or an ErasedSource
Pairs == {Pair(k, v) : k \in Keys, v \in Vals}
Maps == {[kind |-> "map", m |-> f] : f \in UNION {[D -> Vals] : D \in SUBSET Keys}}
Leaves == Pairs \cup Maps
Slices == {[kind |-> "slice", items |-> q] : q \in SeqsUpTo(Leaves, MaxLen)}
Chains == {[kind |-> "chain", a |-> x, b |-> y] : x \in Leaves, y \in Leaves}
Plain == Leaves \cup Slices \cup Chains
Wrapped == {[kind |-> w, inner |-> x] : w \in {"ref", "box", "erased"}, x \in Plain}
Sources == Plain \cup Wrapped

SrcInit ==
    /\ src \in Sources
    /\ key \in QueryKeys
    /\ spc = "start"
    /\ todo = <<>>
    /\ visitor = [key |-> key, found |-> None]
    /\ visited = <<>>
    /\ got = None

\* ---- BTreeMap / HashMap: get is an indexed lookup
get_indexed ==
    /\ spc = "start"
    /\ get_target(src).kind = "map"
    /\ got' = Map_get(get_target(src).m, key)
    /\ spc' = "done"
    /\ UNCHANGED <<src, key, todo, visitor, visited>>

\* ---- Source::get (default): `let mut visitor = Get(key, None);
\* let _ = self.visit(&mut visitor);`
get_scan ==
    /\ spc = "start"
    /\ get_target(src).kind # "map"
    /\ visitor' = [key |-> key, found |-> None]
    /\ todo' = Source_visit(get_target(src))
    /\ spc' = "visiting"
    /\ UNCHANGED <<src, key, visited, got>>

\* ---- one visit_pair call of the scan
visit_pair ==
    /\ spc = "visiting"
    /\ todo # <<>>
    /\ visitor' = Get_visit_pair(visitor, Head(todo).k, Head(todo).v)
    /\ visited' = Append(visited, Head(todo))
    /\ todo' = Tail(todo)
    /\ UNCHANGED <<src, key, spc, got>>

\* ---- Source::get (default): `visitor.1`
get_return ==
    /\ spc = "visiting"
    /\ todo = <<>>
    /\ got' = visitor.found
    /\ spc' = "done"
    /\ UNCHANGED <<src, key, todo, visitor, visited>>

SrcNext == get_indexed \/ get_scan \/ visit_pair \/ get_return

\* ------------------------------------------------ the serde bridge of values
VARIABLES
    gen,        \* which generation of the bridge: "key_values" or "kv"
    val,        \* the value visited
    visitorOk,  \* whether the caller's visitor returns Ok(()) or Err(e)
    vpc,        \* where visit is: "start", "serialized", "done"
    bridged,    \* what Serialize::serialize(self, SerdeBridge(visitor)) returned
    vcalls,     \* the calls made on the visitor, in order
    vret,       \* what visit returned
    serde,      \* whether the serde feature is on: visit goes through the bridge
    how,        \* how the value is captured: "visit", "from_debug", "from_display"
    inner       \* the Inner of the Value captured by from_debug / from_display

servars == <<gen, val, visitorOk, vpc, bridged, vcalls, vret, serde, how, inner>>

Gens == {"key_values", "kv"}

\* ---- integers at their widths: two's complement, little-endian bytes
\* (usize and isize as on a 64-bit target)
IntTys ==
    {"i8", "i16", "i32", "i64", "isize", "u8", "u16", "u32", "u64", "usize",
     "i128", "u128"}
IsSigned(ty) == ty \in {"i8", "i16", "i32", "i64", "isize", "i128"}
Width(ty) ==
    CASE ty \in {"i8", "u8"} -> 1
      [] ty \in {"i16", "u16"} -> 2
      [] ty \in {"i32", "u32"} -> 4
      [] ty \in {"i64", "u64", "isize", "usize"} -> 8
      [] ty \in {"i128", "u128"} -> 16

Repeat(b, n) == [i \in 1..n |-> b]

\* the bytes of the literal n at a width of w bytes
ToBytes(n, w) ==
    [i \in 1..w |->
        IF i <= 4 THEN (n \div (256 ^ (i - 1))) % 256
        ELSE IF n < 0 THEN 255 ELSE 0]

\* the sign bit
IsNeg(bits) == bits[Len(bits)] >= 128

\* `v as <an integer type of w bytes>` from an integer type that is signed or
\* not: truncation, or sign- or zero-extension
As(bits, signed, w) ==
    IF w <= Len(bits) THEN SubSeq(bits, 1, w)
    ELSE bits \o Repeat(IF signed /\ IsNeg(bits) THEN 255 ELSE 0, w - Len(bits))

\* the integer a byte pattern denotes: its sign and its magnitude, the
\* magnitude without leading zero bytes
RECURSIVE NegateCarry(_, _)
NegateCarry(bits, carry) ==
    IF bits = <<>> THEN <<>>
    ELSE LET t == (255 - Head(bits)) + carry
         IN <<t % 256>> \o NegateCarry(Tail(bits), t \div 256)

Negate(bits) == NegateCarry(bits, 1)

RECURSIVE Strip(_)
Strip(bits) ==
    IF bits # <<>> /\ bits[Len(bits)] = 0
    THEN Strip(SubSeq(bits, 1, Len(bits) - 1))
    ELSE bits

IntOf(bits, signed) ==
    LET neg == signed /\ IsNeg(bits)
    IN [neg |-> neg, mag |-> Strip(IF neg THEN Negate(bits) ELSE bits)]

\* the decimal digits of a magnitude, by long division
RECURSIVE Div10(_)
Div10(m) ==
    IF m = <<>> THEN [q |-> <<>>, r |-> 0]
    ELSE LET hi == Div10(Tail(m))
             cur == hi.r * 256 + Head(m)
         IN [q |-> <<cur \div 10>> \o hi.q, r |-> cur % 10]

RECURSIVE Digits(_)
Digits(m) ==
    LET s == Strip(m)
    IN IF s = <<>> THEN ""
       ELSE LET d == Div10(s) IN Digits(d.q) \o ToString(d.r)

\* `{}` and `{:?}` of an integer
Decimal(bits, signed) ==
    LET v == IntOf(bits, signed)
    IN IF v.mag = <<>> THEN "0"
       ELSE (IF v.neg THEN "-" ELSE "") \o Digits(v.mag)

\* ---- floats as their IEEE 754 fields: sign, biased exponent, mantissa bits
ExpMax(ty) == IF ty = "f32" THEN 255 ELSE 2047
Bias(ty) == IF ty = "f32" THEN 127 ELSE 1023
MantBits(ty) == IF ty = "f32" THEN 23 ELSE 52

AllZero(m) == \A i \in DOMAIN m : m[i] = 0
FirstOne(m) == CHOOSE k \in DOMAIN m : m[k] = 1 /\ \A j \in 1..(k - 1) : m[j] = 0

\* `v as f64` of an f32 or f64
as_f64(x) ==
    LET pad == MantBits("f64") - MantBits(x.ty)
        rebias == Bias("f64") - Bias(x.ty)
    IN CASE x.ty = "f64" -> [neg |-> x.neg, e |-> x.e, m |-> x.m]
         [] x.e = ExpMax(x.ty) ->
                [neg |-> x.neg, e |-> ExpMax("f64"), m |-> x.m \o Repeat(0, pad)]
         [] x.e = 0 /\ AllZero(x.m) ->
                [neg |-> x.neg, e |-> 0, m |-> Repeat(0, MantBits("f64"))]
         [] x.e = 0 ->
                \* a subnormal f32 is a normal f64
                LET k == FirstOne(x.m)
                IN [neg |-> x.neg, e |-> 1 + rebias - k,
                    m |-> SubSeq(x.m, k + 1, Len(x.m)) \o Repeat(0, pad + k)]
         [] OTHER ->
                [neg |-> x.neg, e |-> x.e + rebias, m |-> x.m \o Repeat(0, pad)]

\* the number the fields denote in the format ty: its class, sign, exponent
\* and the fraction bits after the leading 1, without trailing zeros
FloatOf(f, ty) ==
    CASE f.e = ExpMax(ty) /\ AllZero(f.m) ->
            [class |-> "inf", neg |-> f.neg, exp |-> 0, frac |-> <<>>]
      [] f.e = ExpMax(ty) ->
            [class |-> "nan", neg |-> FALSE, exp |-> 0, frac |-> <<>>]
      [] f.e = 0 /\ AllZero(f.m) ->
            [class |-> "zero", neg |-> f.neg, exp |-> 0, frac |-> <<>>]
      [] f.e = 0 ->
            LET k == FirstOne(f.m)
            IN [class |-> "finite", neg |-> f.neg, exp |-> 1 - Bias(ty) - k,
                frac |-> Strip(SubSeq(f.m, k + 1, Len(f.m)))]
      [] OTHER ->
            [class |-> "finite", neg |-> f.neg, exp |-> f.e - Bias(ty),
             frac |-> Strip(f.m)]

\* values of the serde data model
\* (one field name per type of payload, so that values stay comparable)
BoolV(b) == [ty |-> "bool", b |-> b]
IntV(ty, n) == [ty |-> ty, bits |-> ToBytes(n, Width(ty))]
\* the least and the greatest integer of a type
IntMin(ty) ==
    [ty |-> ty,
     bits |-> IF IsSigned(ty) THEN Repeat(0, Width(ty) - 1) \o <<128>>
              ELSE Repeat(0, Width(ty))]
IntMax(ty) ==
    [ty |-> ty,
     bits |-> IF IsSigned(ty) THEN Repeat(255, Width(ty) - 1) \o <<127>>
              ELSE Repeat(255, Width(ty))]
StrV(ty, s) == [ty |-> ty, s |-> s]
\* a float: its text (what `{:?}` prints) and its fields, the mantissa given
\* by its leading bits
FloatV(ty, s, neg, e, lead) ==
    [ty |-> ty, s |-> s, neg |-> neg, e |-> e,
     m |-> lead \o Repeat(0, MantBits(ty) - Len(lead))]
Unit == [ty |-> "unit"]
NoneV == [ty |-> "none"]
\* None of the type Option<t>
NoneOf(t) == [ty |-> "none", of |-> t]
SomeV(x) == [ty |-> "some", inner |-> x]
SeqV(ty, items) == [ty |-> ty, items |-> items]
MapV(entries) == [ty |-> "map", entries |-> entries]
Named(ty, name, items) == [ty |-> ty, name |-> name, items |-> items]
Fields(ty, name, entries) == [ty |-> ty, name |-> name, entries |-> entries]

\* the Debug formatting `{:?}` of a value
RECURSIVE DebugFmt(_)
RECURSIVE DebugJoin(_)
RECURSIVE DebugEntries(_, _)
DebugJoin(items) ==
    IF items = <<>> THEN ""
    ELSE IF Len(items) = 1 THEN DebugFmt(items[1])
    ELSE DebugFmt(items[1]) \o ", " \o DebugJoin(Tail(items))

\* entries are <<key, value>>; named fields print bare, map keys as values
DebugEntries(entries, named) ==
    IF entries = <<>> THEN ""
    ELSE LET e == entries[1]
             one == (IF named THEN e[1] ELSE DebugFmt(e[1])) \o ": " \o DebugFmt(e[2])
         IN IF Len(entries) = 1 THEN one
            ELSE one \o ", " \o DebugEntries(Tail(entries), named)

DebugFmt(x) ==
    CASE x.ty = "bool" -> IF x.b THEN "true" ELSE "false"
      [] x.ty \in IntTys -> Decimal(x.bits, IsSigned(x.ty))
      [] x.ty \in {"f32", "f64"} -> x.s
      [] x.ty = "char" -> "'" \o x.s \o "'"
      [] x.ty \in {"str", "String"} -> "\"" \o x.s \o "\""
      [] x.ty = "args" -> x.s
      [] x.ty = "bytes" -> "[" \o DebugJoin(x.items) \o "]"
      [] x.ty = "unit" -> "()"
      [] x.ty = "none" -> "None"
      [] x.ty = "some" -> "Some(" \o DebugFmt(x.inner) \o ")"
      [] x.ty = "seq" -> "[" \o DebugJoin(x.items) \o "]"
      [] x.ty = "tuple" -> "(" \o DebugJoin(x.items) \o ")"
      [] x.ty = "map" -> "{" \o DebugEntries(x.entries, FALSE) \o "}"
      [] x.ty \in {"unit_struct", "unit_variant"} -> x.name
      [] x.ty \in {"newtype_struct", "newtype_variant", "tuple_struct", "tuple_variant"}
            -> x.name \o "(" \o DebugJoin(x.items) \o ")"
      [] x.ty \in {"struct", "struct_variant"}
            -> x.name \o " { " \o DebugEntries(x.entries, TRUE) \o " }"

\* the Display formatting `{}` of a value that serializes with collect_str
DisplayFmt(x) ==
    CASE x.ty = "bool" -> IF x.b THEN "true" ELSE "false"
      [] x.ty \in IntTys -> Decimal(x.bits, IsSigned(x.ty))
      [] OTHER -> x.s

\* a call on the visitor, and what the caller's visitor answers
ArgBool(b) == [b |-> b]
ArgInt(n) == [n |-> n]
ArgStr(s) == [s |-> s]
ArgFloat(f) == [f |-> f]
ArgBytes(items) == [items |-> items]
VCall(m, arg) == [m |-> m, arg |-> arg]
Answer(ok) == IF ok THEN "Ok" ELSE "Other"

\* the widening casts `v as i64` and `v as u64` of an integer of type x.ty
as_i64_zero_extended(x) == As(x.bits, FALSE, 8)

as_i64(x) == As(x.bits, IsSigned(x.ty), 8)
as_u64(x) == As(x.bits, IsSigned(x.ty), 8)

\* SerdeBridge forwarding to one visitor method: `.map_err(SerdeError::Other)`
Forward(m, arg, ok) == [calls |-> <<VCall(m, arg)>>, res |-> Answer(ok)]

\* `Err(SerdeError::Unsupported)`, also what SerdeError::custom makes of the
\* error of a Serializer method the bridge leaves to serde's default
Unsupported == [calls |-> <<>>, res |-> "Unsupported"]

\* Serialize::serialize(x, SerdeBridge(visitor)): the Serializer method x's
\* Serialize impl calls, and what impl Serializer for SerdeBridge does in it
RECURSIVE SerdeBridge_serialize(_, _, _)
SerdeBridge_serialize(g, x, ok) ==
    CASE x.ty = "bool" -> Forward("visit_bool", ArgBool(x.b), ok)
      [] x.ty \in {"i8", "i16", "i32", "i64"} -> Forward("visit_i64", ArgInt(as_i64(x)), ok)
      [] x.ty \in {"u8", "u16", "u32", "u64"} -> Forward("visit_u64", ArgInt(as_u64(x)), ok)
      [] x.ty \in {"f32", "f64"} -> Forward("visit_f64", ArgFloat(as_f64(x)), ok)
      [] x.ty = "char" -> Forward("visit_char", ArgStr(x.s), ok)
      [] x.ty = "str" -> Forward("visit_str", ArgStr(x.s), ok)
      [] x.ty = "args" -> Forward("visit_fmt", ArgStr(DisplayFmt(x)), ok)
      [] x.ty = "bytes" -> Forward("visit_bytes", ArgBytes(x.items), ok)
      [] x.ty \in {"none", "unit"} ->
            IF g = "kv" THEN [calls |-> <<[m |-> "visit_none"]>>, res |-> Answer(ok)]
            ELSE Unsupported
      [] x.ty = "some" -> SerdeBridge_serialize(g, x.inner, ok)
      [] OTHER -> Unsupported

\* the types with a visit of their own, used when the serde feature is off
RECURSIVE HasDirectImpl(_, _)
HasDirectImpl(g, x) ==
    CASE x.ty \in {"bool", "i8", "i16", "i32", "i64", "u8", "u16", "u32", "u64",
                   "f32", "f64", "char", "str", "bytes"} -> TRUE
      [] x.ty \in {"i128", "u128", "args", "none"} -> g = "kv"
      [] x.ty = "some" -> g = "kv" /\ HasDirectImpl(g, x.inner)
      [] OTHER -> FALSE

\* impl_to_value! / ensure_impl_visit!: the visit of each primitive type
RECURSIVE ToValue_visit(_, _, _)
ToValue_visit(g, x, ok) ==
    LET call(m, arg) == [calls |-> <<VCall(m, arg)>>, ret |-> IF ok THEN "Ok" ELSE "Err"]
    IN CASE x.ty = "bool" -> call("visit_bool", ArgBool(x.b))
         [] x.ty \in {"i8", "i16", "i32", "i64"} -> call("visit_i64", ArgInt(as_i64(x)))
         [] x.ty \in {"u8", "u16", "u32", "u64"} -> call("visit_u64", ArgInt(as_u64(x)))
         [] x.ty = "i128" -> call("visit_i128", ArgInt(x.bits))
         [] x.ty = "u128" -> call("visit_u128", ArgInt(x.bits))
         [] x.ty \in {"f32", "f64"} -> call("visit_f64", ArgFloat(as_f64(x)))
         [] x.ty = "char" -> call("visit_char", ArgStr(x.s))
         [] x.ty = "str" -> call("visit_str", ArgStr(x.s))
         [] x.ty = "args" -> call("visit_fmt", ArgStr(DisplayFmt(x)))
         [] x.ty = "bytes" -> call("visit_bytes", ArgBytes(x.items))
         [] x.ty = "none" ->
                [calls |-> <<[m |-> "visit_none"]>>, ret |-> IF ok THEN "Ok" ELSE "Err"]
         [] x.ty = "some" -> ToValue_visit(g, x.inner, ok)

\* ---- the capture of values as primitives (kv::value::internal)
\* the types to_primitive! lists
PrimitiveTys ==
    {"usize", "u8", "u16", "u32", "u64", "isize", "i8", "i16", "i32", "i64",
     "f32", "f64", "char", "bool", "str"}

\* impl From<$ty> for Primitive
Primitive_from(x) ==
    CASE x.ty \in {"u8", "u16", "u32", "u64", "usize"} ->
            [kind |-> "Unsigned", arg |-> ArgInt(as_u64(x))]
      [] x.ty \in {"i8", "i16", "i32", "i64", "isize"} ->
            [kind |-> "Signed", arg |-> ArgInt(as_i64(x))]
      [] x.ty \in {"f32", "f64"} -> [kind |-> "Float", arg |-> ArgFloat(as_f64(x))]
      [] x.ty = "bool" -> [kind |-> "Bool", arg |-> ArgBool(x.b)]
      [] x.ty = "char" -> [kind |-> "Char", arg |-> ArgStr(x.s)]
      [] x.ty = "str" -> [kind |-> "Str", arg |-> ArgStr(x.s)]

Primitive_None == [kind |-> "None"]

\* from_any with only the plain types matched, no Option<$ty>
from_any_plain_only(x) ==
    IF x.ty \in PrimitiveTys THEN Some(Primitive_from(x)) ELSE None

\* from_any: ToPrimitive::CALL, the match on TypeId::of::<Self>()
from_any(x) ==
    CASE x.ty \in PrimitiveTys -> Some(Primitive_from(x))
      [] x.ty = "some" /\ x.inner.ty \in PrimitiveTys -> Some(Primitive_from(x.inner))
      [] x.ty = "none" /\ x.of \in PrimitiveTys -> Some(Primitive_None)
      [] OTHER -> None

\* cast::try_from_primitive
try_from_primitive(x) ==
    LET p == from_any(x)
    IN IF p = None THEN None ELSE Some([inner |-> "Primitive", value |-> p[1]])

\* Value::from_debug and Value::from_display: `.unwrap_or(..)`
Value_from_debug(x) ==
    LET p == try_from_primitive(x)
    IN IF p = None THEN [inner |-> "Debug", value |-> x] ELSE p[1]

Value_from_display(x) ==
    LET p == try_from_primitive(x)
    IN IF p = None THEN [inner |-> "Display", value |-> x] ELSE p[1]

\* the types with a Display impl among those modelled
HasDisplay(x) == x.ty \in IntTys \cup {"f32", "f64", "bool", "char", "str", "String"}

\* Primitive::visit with every integer sent to u64
Primitive_visit_unsigned_only(p) ==
    CASE p.kind \in {"Signed", "Unsigned"} -> VCall("u64", p.arg)
      [] p.kind = "Float" -> VCall("f64", p.arg)
      [] p.kind = "Bool" -> VCall("bool", p.arg)
      [] p.kind = "Char" -> VCall("char", p.arg)
      [] p.kind = "Str" -> VCall("borrowed_str", p.arg)
      [] p.kind = "None" -> [m |-> "none"]

\* Primitive::visit: the one call on the internal Visitor
Primitive_visit(p) ==
    CASE p.kind = "Signed" -> VCall("i64", p.arg)
      [] p.kind = "Unsigned" -> VCall("u64", p.arg)
      [] p.kind = "Float" -> VCall("f64", p.arg)
      [] p.kind = "Bool" -> VCall("bool", p.arg)
      [] p.kind = "Char" -> VCall("char", p.arg)
      [] p.kind = "Str" -> VCall("borrowed_str", p.arg)
      [] p.kind = "None" -> [m |-> "none"]

\* Inner::visit
Inner_visit(i) ==
    CASE i.inner = "Primitive" -> Primitive_visit(i.value)
      [] i.inner = "Debug" -> VCall("debug", ArgStr(DebugFmt(i.value)))
      [] i.inner = "Display" -> VCall("display", ArgStr(DisplayFmt(i.value)))

NoInner == [inner |-> "none"]

\* visit with the fallback left out: Unsupported handed back as an error
ErasedValue_visit_match_no_fallback(r, x, ok) ==
    [calls |-> r.calls, ret |-> IF r.res = "Ok" THEN "Ok" ELSE "Err"]

\* impl ErasedValue for T / impl Visit for T: the match on the bridge's result
ErasedValue_visit_match(r, x, ok) ==
    CASE r.res = "Unsupported" ->
            [calls |-> r.calls \o <<VCall("visit_fmt", ArgStr(DebugFmt(x)))>>,
             ret |-> IF ok THEN "Ok" ELSE "Err"]
      [] r.res = "Other" -> [calls |-> r.calls, ret |-> "Err"]
      [] r.res = "Ok" -> [calls |-> r.calls, ret |-> "Ok"]

\* the values the model draws from
One == IntV("i32", 1)
Id == IntV("u64", 123)
Alice == StrV("str", "alice")
PrimValues ==
    {BoolV(TRUE), BoolV(FALSE), IntV("i8", -1), IntV("i16", -2), One, IntV("i64", -4),
     IntV("u8", 1), IntV("u16", 2), IntV("u32", 3), Id,
     FloatV("f32", "1.5", FALSE, 127, <<1>>),
     FloatV("f32", "-3.4028235e38", TRUE, 254, Repeat(1, 23)),
     FloatV("f32", "1e-45", FALSE, 0, Repeat(0, 22) \o <<1>>),
     FloatV("f32", "-0.0", TRUE, 0, <<>>),
     FloatV("f32", "inf", FALSE, 255, <<>>),
     FloatV("f32", "NaN", FALSE, 255, <<1>>),
     FloatV("f64", "2.5", FALSE, 1024, <<0, 1>>),
     FloatV("f64", "1.7976931348623157e308", FALSE, 2046, Repeat(1, 52)), StrV("char", "a"),
     StrV("str", "a string"), StrV("args", "some text"),
     StrV("str", ""),
     SeqV("bytes", <<IntV("u8", 1), IntV("u8", 2)>>), Unit, NoneV}
        \cup {IntMax(ty) : ty \in {"i8", "i16", "i32", "i64", "u8", "u16", "u32", "u64"}}
        \cup {IntMin(ty) : ty \in {"i8", "i16", "i32", "i64"}}
CompoundValues ==
    {SeqV("seq", <<>>), SeqV("seq", <<One, Id>>),
     SeqV("tuple", <<One, BoolV(TRUE)>>),
     MapV(<<<<StrV("str", "id"), Id>>, <<StrV("str", "name"), Alice>>>>),
     Fields("struct", "User", <<<<"id", Id>>, <<"name", Alice>>>>),
     Fields("struct_variant", "Created", <<<<"id", Id>>>>),
     Named("unit_struct", "Marker", <<>>),
     Named("unit_variant", "Red", <<>>),
     Named("newtype_struct", "Meters", <<One>>),
     Named("newtype_variant", "Left", <<Alice>>),
     Named("tuple_struct", "Point", <<One, One>>),
     Named("tuple_variant", "Rgb", <<One, One, One>>),
     IntV("i128", 5), IntV("u128", 6)}
SerValues ==
    PrimValues \cup CompoundValues
        \cup {SomeV(x) : x \in PrimValues \cup CompoundValues}
        \cup {SomeV(SomeV(x)) : x \in {One, NoneV, SeqV("seq", <<One, Id>>)}}

\* the values handed to from_debug and from_display
Owned == StrV("String", "owned")
CaptureValues ==
    LET plain == {x \in PrimValues : x.ty \in PrimitiveTys}
                    \cup {IntV("u16", 1), IntV("usize", 7), IntMax("usize"), IntV("isize", -7),
                          IntMin("isize")}
        other == {Owned, IntV("i128", -5), IntMax("u128"),
                  SeqV("seq", <<One, Id>>),
                  Fields("struct", "User", <<<<"id", Id>>, <<"name", Alice>>>>)}
    IN plain \cup other
        \cup {SomeV(x) : x \in plain \cup other}
        \cup {SomeV(SomeV(IntV("u16", 1)))}
        \cup {NoneOf(t) : t \in {"u16", "i64", "f32", "bool", "char", "str",
                                 "String", "u128", "seq"}}

SerIdle ==
    /\ gen = "kv"
    /\ val = Unit
    /\ visitorOk = TRUE
    /\ vpc = "start"
    /\ bridged = "none"
    /\ vcalls = <<>>
    /\ vret = "none"
    /\ serde = TRUE
    /\ how = "visit"
    /\ inner = NoInner

SerInit ==
    /\ \/ /\ gen \in Gens
          /\ how = "visit"
          /\ serde \in BOOLEAN
          /\ val \in SerValues
          /\ serde \/ HasDirectImpl(gen, val)
       \/ /\ gen = "internal"
          /\ how \in {"from_debug", "from_display"}
          /\ serde = FALSE
          /\ val \in CaptureValues
          /\ how = "from_display" => HasDisplay(val)
    /\ inner = NoInner
    /\ visitorOk \in BOOLEAN
    /\ vpc = "start"
    /\ bridged = "none"
    /\ vcalls = <<>>
    /\ vret = "none"

\* ---- visit: `Serialize::serialize(self, SerdeBridge(visitor))`
visit_serialize ==
    /\ vpc = "start"
    /\ serde
    /\ LET r == SerdeBridge_serialize(gen, val, visitorOk)
       IN /\ vcalls' = r.calls
          /\ bridged' = r.res
    /\ vpc' = "serialized"
    /\ UNCHANGED <<gen, val, visitorOk, vret, serde, how, inner>>

\* ---- visit: the match on the result, with the Debug fallback
visit_match ==
    /\ vpc = "serialized"
    /\ LET r == ErasedValue_visit_match([calls |-> vcalls, res |-> bridged],
                                        val, visitorOk)
       IN /\ vcalls' = r.calls
          /\ vret' = r.ret
    /\ vpc' = "done"
    /\ UNCHANGED <<gen, val, visitorOk, bridged, serde, how, inner>>

\* ---- visit of a primitive type with the serde feature off
visit_direct ==
    /\ vpc = "start"
    /\ how = "visit"
    /\ ~serde
    /\ LET r == ToValue_visit(gen, val, visitorOk)
       IN /\ vcalls' = r.calls
          /\ vret' = r.ret
    /\ vpc' = "done"
    /\ UNCHANGED <<gen, val, visitorOk, bridged, serde, how, inner>>

\* ---- Value::from_debug(&val)
from_debug ==
    /\ vpc = "start"
    /\ how = "from_debug"
    /\ inner' = Value_from_debug(val)
    /\ vpc' = "captured"
    /\ UNCHANGED <<gen, val, visitorOk, bridged, vcalls, vret, serde, how>>

\* ---- Value::from_display(&val)
from_display ==
    /\ vpc = "start"
    /\ how = "from_display"
    /\ inner' = Value_from_display(val)
    /\ vpc' = "captured"
    /\ UNCHANGED <<gen, val, visitorOk, bridged, vcalls, vret, serde, how>>

\* ---- visiting the captured Value: Inner::visit
Value_visit ==
    /\ vpc = "captured"
    /\ vcalls' = <<Inner_visit(inner)>>
    /\ vret' = IF visitorOk THEN "Ok" ELSE "Err"
    /\ vpc' = "done"
    /\ UNCHANGED <<gen, val, visitorOk, bridged, serde, how, inner>>

SerNext ==
    \/ visit_serialize \/ visit_match \/ visit_direct
    \/ from_debug \/ from_display \/ Value_visit

\* --------------------------------------------------------- specifications
vars == <<logvars, cmpvars, srcvars, servars>>

\* the global logger, set and used by concurrent threads
Init == LogInit /\ CmpIdle /\ SrcIdle /\ SerIdle
Next == LogNext /\ UNCHANGED <<cmpvars, srcvars, servars>>
Spec == Init /\ [][Next]_vars

LogIdle ==
    /\ state = ATOMIC_USIZE_INIT
    /\ LOGGER = "NopLogger"
    /\ MAX_LOG_LEVEL_FILTER = ATOMIC_USIZE_INIT
    /\ pc = [t \in Threads |-> "idle"]
    /\ frame = [t \in Threads |-> NoFrame]
    /\ calls = 0
    /\ okCount = 0
    /\ sink = {}
    /\ writes = 0
    /\ published = FALSE
    /\ setMaxCalled = FALSE

\* comparisons of every Level with every LevelFilter
InitCmp == CmpInit /\ LogIdle /\ SrcIdle /\ SerIdle
NextCmp == CmpNext /\ UNCHANGED <<logvars, srcvars, servars>>
SpecCmp == InitCmp /\ [][NextCmp]_vars

\* Source::get on every modelled source, for every key
InitSource == SrcInit /\ LogIdle /\ CmpIdle /\ SerIdle
NextSource == SrcNext /\ UNCHANGED <<logvars, cmpvars, servars>>
SpecSource == InitSource /\ [][NextSource]_vars

\* visiting every modelled value: the serde bridge, the primitive impls, and
\* the capture by from_debug / from_display
InitSerde == SerInit /\ LogIdle /\ CmpIdle /\ SrcIdle
NextSerde == SerNext /\ UNCHANGED <<logvars, cmpvars, srcvars>>
SpecSerde == InitSerde /\ [][NextSerde]_vars

\* ------------------------------------------------- the claims' vocabulary
\* The severity scale as the documentation states it.
Scale == <<"Off", "Error", "Warn", "Info", "Debug", "Trace">>
ScalePos(x) == CHOOSE i \in DOMAIN Scale : Scale[i] = x

Metadata == [level : Level, target : Targets]
Returned(t) == frame[t].result # "none"
Lookups == {"log", "log_enabled", "flush"}

\* C1: over any interleaving of set_logger / set_boxed_logger calls at most
\* one call returns Ok, and LOGGER is assigned by that call only: there is at
\* most one assignment, the call that returned Ok made it, and a call that
\* returned Err made none.
C1_InitializedAtMostOnce ==
    /\ okCount <= 1
    /\ writes <= 1
    /\ \A t \in Threads :
         frame[t].op \in SetOps /\ Returned(t) =>
             /\ frame[t].result = "Ok" => frame[t].wrote
             /\ frame[t].result = "Err" => ~frame[t].wrote

\* two calls raced (neither began after an Ok), one won and one lost
C1_Witness ==
    \E t, u \in Threads :
        /\ frame[t].op = "set_logger" /\ frame[t].result = "Ok"
        /\ frame[u].op = "set_boxed_logger" /\ frame[u].result = "Err"
        /\ ~frame[u].okBefore
        /\ LOGGER = frame[t].logger

\* C2: a set_logger or set_boxed_logger call that starts after an earlier call
\* has returned Ok returns Err(SetLoggerError), and never gets to assign LOGGER.
C2_ErrAfterOk ==
    \A t \in Threads :
        frame[t].op \in SetOps /\ frame[t].okBefore =>
            /\ pc[t] \in {"cas", "idle"}
            /\ Returned(t) => frame[t].result = "Err"
            /\ ~frame[t].wrote

C2_Witness ==
    \E t \in Threads :
        /\ frame[t].op \in SetOps /\ frame[t].okBefore
        /\ frame[t].result = "Err"
        /\ okCount = 1

C4_NopUntilSet ==
    /\ \A t \in Threads :
         frame[t].op \in Lookups /\ Returned(t) /\ ~frame[t].pubAtLookup =>
             /\ frame[t].lg = "NopLogger"
             /\ ~frame[t].enabled
    /\ \A md \in Metadata : ~Log_enabled("NopLogger", md)
    /\ ~published => sink = {}

\* with no logger set, one thread asked log_enabled! at an admitted level and
\* another flushed
C4_Witness ==
    /\ writes = 0
    /\ \E t, u \in Threads :
        /\ frame[t].op = "log_enabled" /\ frame[t].result = "returned"
        /\ frame[t].max = "Trace"
        /\ frame[u].op = "flush" /\ frame[u].result = "flushed"

\* C5: log!(lvl, ...) calls Log::log on logger() if and only if
\* lvl <= STATIC_MAX_LEVEL and lvl <= max_level() as read by the call; a call
\* that reaches an installed logger leaves the record with it.
C5_LogIffWithinMaxLevel ==
    \A t \in Threads :
        frame[t].op = "log" /\ Returned(t) =>
            /\ frame[t].result = "logged" <=>
                   /\ ScalePos(frame[t].lvl) <= ScalePos(STATIC_MAX_LEVEL)
                   /\ ScalePos(frame[t].lvl) <= ScalePos(frame[t].max)
            /\ frame[t].result = "logged" /\ frame[t].lg # "NopLogger" =>
                   \E e \in sink : /\ e.kind = "log" /\ e.to = frame[t].lg
                                   /\ e.lvl = frame[t].lvl

\* a record at exactly the maximum level reached the installed logger
C5_Witness ==
    \E t \in Threads :
        /\ frame[t].op = "log" /\ frame[t].result = "logged"
        /\ frame[t].lvl = "Info" /\ frame[t].max = "Info"
        /\ frame[t].lg = "MY_LOGGER"
        /\ \E e \in sink : e.to = "MY_LOGGER" /\ e.lvl = "Info"

\* C6: as long as set_max_level has never been called, max_level() is Off, no
\* log! reaches Log::log, and no logger has received a record, even after
\* set_logger has succeeded.
C6_DefaultMaxLevelOff ==
    ~setMaxCalled =>
        /\ max_level = "Off"
        /\ \A t \in Threads : frame[t].op = "log" => frame[t].result # "logged"
        /\ \A e \in sink : e.kind # "log"

\* after set_logger returned Ok, an Error record was logged and discarded
C6_Witness ==
    /\ ~setMaxCalled
    /\ okCount = 1
    /\ \E t \in Threads :
        /\ frame[t].op = "log" /\ frame[t].okBefore
        /\ frame[t].lvl = "Error" /\ frame[t].result = "discarded"

\* C7: log_enabled!(target, lvl) is true if and only if lvl <= STATIC_MAX_LEVEL,
\* lvl <= max_level(), and logger().enabled() is true for metadata with that
\* level and target; it is false whenever no logger has been set.
C7_LogEnabledIff ==
    \A t \in Threads :
        frame[t].op = "log_enabled" /\ Returned(t) =>
            /\ frame[t].enabled <=>
                   /\ ScalePos(frame[t].lvl) <= ScalePos(STATIC_MAX_LEVEL)
                   /\ ScalePos(frame[t].lvl) <= ScalePos(frame[t].max)
                   /\ Log_enabled(frame[t].lg, [level |-> frame[t].lvl,
                                                target |-> frame[t].target])
            /\ ~frame[t].pubAtLookup => ~frame[t].enabled

\* at exactly the maximum level the boxed logger answered yes for its target
C7_Witness ==
    \E t \in Threads :
        /\ frame[t].op = "log_enabled" /\ frame[t].result = "returned"
        /\ frame[t].lvl = "Trace" /\ frame[t].max = "Trace"
        /\ frame[t].lg = "BoxedLogger" /\ frame[t].target = "app_events"
        /\ frame[t].enabled

\* what the scale says about a comparison
ScaleAnswer(op, l, f) ==
    CASE op \in {"l == f", "f == l"} -> ScalePos(l) = ScalePos(f)
      [] op \in {"l < f", "f > l"} -> ScalePos(l) < ScalePos(f)
      [] op \in {"l <= f", "f >= l"} -> ScalePos(l) <= ScalePos(f)
      [] op \in {"l > f", "f < l"} -> ScalePos(l) > ScalePos(f)
      [] op \in {"l >= f", "f <= l"} -> ScalePos(l) >= ScalePos(f)

Mirror(op) ==
    CASE op = "l == f" -> "f == l" [] op = "f == l" -> "l == f"
      [] op = "l < f" -> "f > l" [] op = "f > l" -> "l < f"
      [] op = "l <= f" -> "f >= l" [] op = "f >= l" -> "l <= f"
      [] op = "l > f" -> "f < l" [] op = "f < l" -> "l > f"
      [] op = "l >= f" -> "f <= l" [] op = "f <= l" -> "l >= f"

\* C8: comparing a Level with a LevelFilter, in either direction, gives the
\* answer their positions on the scale Off < Error < Warn < Info < Debug <
\* Trace give, and a comparison and its mirror image (l < f and f > l,
\* l == f and f == l, ...) agree.
C8_OneScale ==
    /\ \A r \in cmpRes : r.val = ScaleAnswer(r.op, cmpL, cmpF)
    /\ \A r, q \in cmpRes : q.op = Mirror(r.op) => q.val = r.val

\* Warn against Info, all ten comparisons evaluated
C8_Witness ==
    /\ cmpL = "Warn" /\ cmpF = "Info"
    /\ {r.op : r \in cmpRes} = CmpOps
    /\ [op |-> "l < f", val |-> TRUE] \in cmpRes
    /\ [op |-> "f > l", val |-> TRUE] \in cmpRes

\* the value of the last pair with key k in a sequence of pairs, if any
LastFor(pairs, k) ==
    LET I == {i \in DOMAIN pairs : pairs[i].k = k}
    IN IF I = {} THEN None
       ELSE Some(pairs[CHOOSE i \in I : \A j \in I : j <= i].v)

RECURSIVE Repr(_)
Repr(x) == IF x.ty = "some" THEN Repr(x.inner) ELSE x.ty

\* the representations no Visitor method carries: the compound and named
\* ones and the 128-bit integers; before Visitor had visit_none, unit and
\* None as well
UnsupportedReprs(g) ==
    {"seq", "tuple", "map", "struct", "struct_variant", "unit_struct",
     "unit_variant", "newtype_struct", "newtype_variant", "tuple_struct",
     "tuple_variant", "i128", "u128"}
        \cup (IF g = "key_values" THEN {"none", "unit"} ELSE {})

\* C10: a value whose serde representation the bridge does not support is
\* visited as exactly one visit_fmt call carrying the Debug formatting of the
\* value, and no other visitor method is called.
C10_UnsupportedAsDebug ==
    vpc = "done" /\ serde /\ Repr(val) \in UnsupportedReprs(gen) =>
        vcalls = <<VCall("visit_fmt", ArgStr(DebugFmt(val)))>>

\* the map of the repository's test, and an Option around a sequence
C10_Witness ==
    /\ vpc = "done"
    /\ serde
    /\ \/ /\ val.ty = "map"
          /\ vcalls = <<VCall("visit_fmt", ArgStr("{\"id\": 123, \"name\": \"alice\"}"))>>
       \/ /\ val = SomeV(SeqV("seq", <<One, Id>>))
          /\ vcalls = <<VCall("visit_fmt", ArgStr("Some([1, 123])"))>>

\* C11: visiting a primitive value calls exactly one visitor method with the
\* same value, widened without loss: the unsigned integers of 8 to 64 bits
\* arrive at visit_u64, the signed ones at visit_i64, both floats at
\* visit_f64, bool at visit_bool and strings at visit_str unchanged.
C11_PrimitivesWidened ==
    vpc = "done" /\ how = "visit"
        /\ val.ty \in {"u8", "u16", "u32", "u64", "i8", "i16", "i32", "i64",
                       "f32", "f64", "bool", "str"} =>
        /\ Len(vcalls) = 1
        /\ LET c == vcalls[1]
           IN CASE val.ty \in {"u8", "u16", "u32", "u64"} ->
                    /\ c.m = "visit_u64"
                    /\ Len(c.arg.n) = 8
                    /\ IntOf(c.arg.n, FALSE) = IntOf(val.bits, FALSE)
                [] val.ty \in {"i8", "i16", "i32", "i64"} ->
                    /\ c.m = "visit_i64"
                    /\ Len(c.arg.n) = 8
                    /\ IntOf(c.arg.n, TRUE) = IntOf(val.bits, TRUE)
                [] val.ty \in {"f32", "f64"} ->
                    /\ c.m = "visit_f64"
                    /\ Len(c.arg.f.m) = MantBits("f64")
                    /\ FloatOf(c.arg.f, "f64") = FloatOf(val, val.ty)
                [] val.ty = "bool" -> c.m = "visit_bool" /\ c.arg.b = val.b
                [] val.ty = "str" -> c.m = "visit_str" /\ c.arg.s = val.s

\* the least i8 arrives as the i64 -128, sign-extended
C11_Witness ==
    /\ vpc = "done"
    /\ val = IntMin("i8")
    /\ vcalls = <<VCall("visit_i64", ArgInt(<<128>> \o Repeat(255, 7)))>>
    /\ Decimal(vcalls[1].arg.n, TRUE) = "-128"

\* the primitive types a reader takes the sentence to name, and the ones of
\* at most 64 bits
ClaimPrimitiveTys == IntTys \cup {"f32", "f64", "bool", "char", "str"}
Upto64PrimitiveTys == ClaimPrimitiveTys \ {"i128", "u128"}

\* x is of one of the types tys, or an Option of one
IsPrimitiveOrOption(x, tys) ==
    \/ x.ty \in tys
    \/ x.ty = "some" /\ x.inner.ty \in tys
    \/ x.ty = "none" /\ x.of \in tys

\* the call c carries x as a number, bool, char or string of the same value
VisitedAsPrimitive(x, c) ==
    CASE x.ty \in {"u8", "u16", "u32", "u64", "usize"} ->
            /\ c.m = "u64"
            /\ Len(c.arg.n) = 8
            /\ IntOf(c.arg.n, FALSE) = IntOf(x.bits, FALSE)
      [] x.ty \in {"i8", "i16", "i32", "i64", "isize"} ->
            /\ c.m = "i64"
            /\ Len(c.arg.n) = 8
            /\ IntOf(c.arg.n, TRUE) = IntOf(x.bits, TRUE)
      [] x.ty \in {"i128", "u128"} -> c.m \in {"i64", "u64", "f64"}
      [] x.ty \in {"f32", "f64"} ->
            /\ c.m = "f64"
            /\ FloatOf(c.arg.f, "f64") = FloatOf(x, x.ty)
      [] x.ty = "bool" -> c.m = "bool" /\ c.arg.b = x.b
      [] x.ty = "char" -> c.m = "char" /\ c.arg.s = x.s
      [] x.ty = "str" -> c.m \in {"str", "borrowed_str"} /\ c.arg.s = x.s

\* the call c carries x through its Debug or its Display implementation
VisitedAsText(x, c) ==
    \/ how = "from_debug" /\ c = VCall("debug", ArgStr(DebugFmt(x)))
    \/ how = "from_display" /\ c = VCall("display", ArgStr(DisplayFmt(x)))

Captured ==
    /\ vpc = "done"
    /\ how \in {"from_debug", "from_display"}

CapturesPrimitives(tys) ==
    Captured =>
        /\ Len(vcalls) = 1
        /\ IF IsPrimitiveOrOption(val, tys)
           THEN CASE val.ty = "some" -> VisitedAsPrimitive(val.inner, vcalls[1])
                  [] val.ty = "none" -> vcalls[1].m = "none"
                  [] OTHER -> VisitedAsPrimitive(val, vcalls[1])
           ELSE VisitedAsText(val, vcalls[1])

\* C12 as stated: from_debug and from_display capture a value of a primitive
\* type (integers, floats, bool, char, &str and Options of these) as that
\* primitive, and a value of any other type through Debug or Display.
C12_CapturesEveryPrimitive == CapturesPrimitives(ClaimPrimitiveTys)

\* C12: from_debug and from_display capture a value of a primitive type of
\* at most 64 bits (u8 to u64, usize, i8 to i64, isize, f32, f64, bool, char,
\* &str and Options of these) as that primitive with the same value; a value
\* of any other type, i128 and u128 included, is captured through its Debug
\* or Display implementation.
C12_CapturesPrimitivesUpTo64 == CapturesPrimitives(Upto64PrimitiveTys)

\* from_display(&2u16) is visited as the unsigned integer 2
C12_Witness ==
    /\ Captured
    /\ how = "from_display"
    /\ val = IntV("u16", 2)
    /\ inner.inner = "Primitive"
    /\ vcalls[1].m = "u64"
    /\ Decimal(vcalls[1].arg.n, FALSE) = "2"

\* the calls a visit of x makes, by the way val is being visited
VisitOf(x) ==
    CASE how = "visit" /\ serde ->
            LET r == SerdeBridge_serialize(gen, x, visitorOk)
            IN ErasedValue_visit_match(r, x, visitorOk).calls
      [] how = "visit" -> ToValue_visit(gen, x, visitorOk).calls
      [] how = "from_debug" -> <<Inner_visit(Value_from_debug(x))>>
      [] how = "from_display" -> <<Inner_visit(Value_from_display(x))>>

\* the none value of the Visitor in use
NoneCall == [m |-> IF gen = "internal" THEN "none" ELSE "visit_none"]

\* an Option visited where the Visitor has a none value
OptionVisited ==
    /\ vpc = "done"
    /\ gen # "key_values"
    /\ val.ty \in {"some", "none"}

VisitedTransparently ==
    /\ val.ty = "some" => vcalls = VisitOf(val.inner)
    /\ val.ty = "none" => vcalls = <<NoneCall>>

\* the Options whose contents decide the visit: any Option visited by its own
\* impl, one whose contents the serde bridge supports, or an Option of a
\* primitive type handed to from_debug
HoldsPrimitive ==
    CASE how = "visit" /\ serde -> Repr(val) \notin UnsupportedReprs(gen)
      [] how = "visit" -> TRUE
      [] OTHER -> IsPrimitiveOrOption(val, Upto64PrimitiveTys)

\* the whole Option as Debug text
VisitedAsDebugOfOption ==
    vcalls = <<VCall(IF gen = "internal" THEN "debug" ELSE "visit_fmt",
                     ArgStr(DebugFmt(val)))>>

\* C13 as stated: an Option is captured transparently: Some(v) is visited
\* exactly as v itself would be, and None is visited as the none value.
C13_OptionTransparent == OptionVisited => VisitedTransparently

\* C13: an Option of a primitive is captured transparently: Some(v) is
\* visited exactly as v would be and None as the none value, when v is of a
\* primitive type (from_debug), or of a representation the serde bridge
\* supports, or the Option is visited by its own impl. Any other Option is
\* visited once, as the Debug text of the whole Option.
C13_OptionOfPrimitiveTransparent ==
    OptionVisited =>
        IF HoldsPrimitive THEN VisitedTransparently ELSE VisitedAsDebugOfOption

\* from_debug(&Some(1u16)) is visited as the unsigned integer 1
C13_Witness ==
    /\ OptionVisited
    /\ how = "from_debug"
    /\ val = SomeV(IntV("u16", 1))
    /\ vcalls = <<VCall("u64", ArgInt(<<1>> \o Repeat(0, 7)))>>

====
